---------------------------- MODULE Spec2Model ----------------------------
(***************************************************************************)
(* A model of api/app.py of General_recorder: the Telegram webhook that    *)
(* parses a free-text message into column updates and upserts them into    *)
(* the day's row of General_track.                                         *)
(*                                                                         *)
(* Text is modelled as a sequence of one-character strings, so that        *)
(* split, strip, lower, startswith and float are computed on characters.   *)
(* A float is modelled as an exact decimal [m, e] meaning m / 10^e, with   *)
(* trailing fractional zeros removed ("7", "7.0" and "7.00" are equal).    *)
(***************************************************************************)
EXTENDS Integers, Sequences, FiniteSets, TLC

(***************************************************************************)
(* Bounds of the model.                                                    *)
(***************************************************************************)
\* Number of comma-separated clauses of a parsed message (parser runs).
MaxClauses == 3
\* Number of webhook requests in flight (pipeline runs).
NumReq == 2
\* Last reading of the wall clock; two readings make one calendar day.
MaxClock == 2

(***************************************************************************)
(* Characters and strings (Python str methods used by handle_message).     *)
(***************************************************************************)
IsSpace(c) == c = " "

LowerChar(c) ==
    CASE c = "S" -> "s"
      [] c = "P" -> "p"
      [] c = "K" -> "k"
      [] c = "E" -> "e"
      [] OTHER -> c

Lower(s) == [i \in 1..Len(s) |-> LowerChar(s[i])]

RECURSIVE LStrip(_)
LStrip(s) == IF s # <<>> /\ IsSpace(Head(s)) THEN LStrip(Tail(s)) ELSE s

RECURSIVE RStrip(_)
RStrip(s) ==
    IF s # <<>> /\ IsSpace(s[Len(s)]) THEN RStrip(SubSeq(s, 1, Len(s) - 1)) ELSE s

Strip(s) == RStrip(LStrip(s))

\* text.split(","): always at least one part.
RECURSIVE SplitComma(_)
SplitComma(s) ==
    IF \A i \in 1..Len(s) : s[i] # ","
    THEN <<s>>
    ELSE LET k == CHOOSE i \in 1..Len(s) :
                      s[i] = "," /\ \A j \in 1..(i - 1) : s[j] # ","
         IN  <<SubSeq(s, 1, k - 1)>> \o SplitComma(SubSeq(s, k + 1, Len(s)))

\* str.split() with no argument: split on runs of whitespace, no empty tokens.
RECURSIVE SplitWs(_)
SplitWs(s) ==
    LET t == LStrip(s)
    IN  IF t = <<>>
        THEN <<>>
        ELSE LET ends == {i \in 1..Len(t) : IsSpace(t[i])}
                 n == IF ends = {} THEN Len(t) + 1
                      ELSE CHOOSE i \in ends : \A j \in ends : i <= j
             IN  <<SubSeq(t, 1, n - 1)>> \o SplitWs(SubSeq(t, n, Len(t)))

\* " ".join(tokens)
RECURSIVE JoinSpace(_)
JoinSpace(tokens) ==
    IF tokens = <<>> THEN <<>>
    ELSE IF Len(tokens) = 1 THEN tokens[1]
    ELSE tokens[1] \o <<" ">> \o JoinSpace(Tail(tokens))

StartsWith(s, prefix) ==
    Len(prefix) <= Len(s) /\ SubSeq(s, 1, Len(prefix)) = prefix

(***************************************************************************)
(* float(token) and str(float).  The inputs of the model use plain decimal *)
(* syntax only: an optional sign, digits, at most one point.               *)
(***************************************************************************)
Digits == <<"0", "1", "2", "3", "4", "5", "6", "7", "8", "9">>

IsDigit(c) == \E n \in 1..10 : Digits[n] = c

DigitVal(c) == (CHOOSE n \in 1..10 : Digits[n] = c) - 1

Unsigned(tok) ==
    IF tok # <<>> /\ Head(tok) \in {"-", "+"} THEN Tail(tok) ELSE tok

\* float(tok) does not raise ValueError.
IsFloat(tok) ==
    LET body == Unsigned(tok)
        dots == {i \in 1..Len(body) : body[i] = "."}
    IN  /\ \A i \in 1..Len(body) : IsDigit(body[i]) \/ body[i] = "."
        /\ Cardinality(dots) <= 1
        /\ \E i \in 1..Len(body) : IsDigit(body[i])

RECURSIVE DigitsVal(_)
DigitsVal(ds) ==
    IF ds = <<>> THEN 0
    ELSE DigitsVal(SubSeq(ds, 1, Len(ds) - 1)) * 10 + DigitVal(ds[Len(ds)])

RECURSIVE Normalize(_)
Normalize(v) ==
    IF v.e > 0 /\ v.m % 10 = 0
    THEN Normalize([m |-> v.m \div 10, e |-> v.e - 1])
    ELSE v

\* The value of float(tok), for tok with IsFloat(tok).
FloatValue(tok) ==
    LET body == Unsigned(tok)
        ds   == SelectSeq(body, IsDigit)
        dots == {i \in 1..Len(body) : body[i] = "."}
        frac == IF dots = {} THEN 0 ELSE Len(body) - (CHOOSE i \in dots : TRUE)
        sign == IF tok # <<>> /\ Head(tok) = "-" THEN -1 ELSE 1
    IN  Normalize([m |-> sign * DigitsVal(ds), e |-> frac])

RECURSIVE NatStr(_)
NatStr(n) ==
    IF n < 10 THEN <<Digits[n + 1]>>
    ELSE NatStr(n \div 10) \o <<Digits[(n % 10) + 1]>>

RECURSIVE Pow10(_)
Pow10(k) == IF k = 0 THEN 1 ELSE 10 * Pow10(k - 1)

RECURSIVE ZeroPad(_, _)
ZeroPad(s, width) == IF Len(s) >= width THEN s ELSE ZeroPad(<<"0">> \o s, width)

\* str(v) of a float: always shows a fractional part ("7.0", "70.5").
FloatStr(v) ==
    LET a    == IF v.m < 0 THEN -v.m ELSE v.m
        ip   == a \div Pow10(v.e)
        fp   == a % Pow10(v.e)
        sgn  == IF v.m < 0 THEN <<"-">> ELSE <<>>
    IN  sgn \o NatStr(ip) \o <<".">>
            \o (IF v.e = 0 THEN <<"0">> ELSE ZeroPad(NatStr(fp), v.e))

(***************************************************************************)
(* The field vocabulary, in declaration (dict iteration) order.            *)
(***************************************************************************)
COLUMN_MAPPING == <<
    [key |-> <<"s", "u", "e", "ñ", "o">>, column |-> "Suenho"],
    [key |-> <<"s">>, column |-> "Suenho"],
    [key |-> <<"s", "u", "e", "ñ", "o", " ", "p", "r", "o", "f">>, column |-> "Suenho_profundo"],
    [key |-> <<"s", "p">>, column |-> "Suenho_profundo"],
    [key |-> <<"p", "e", "s", "o">>, column |-> "Peso"],
    [key |-> <<"p">>, column |-> "Peso"],
    [key |-> <<"k", "c", "a", "l">>, column |-> "KCal"],
    [key |-> <<"k", "m">>, column |-> "KM_Nad"],
    [key |-> <<"c", "e", "r", "v", "e">>, column |-> "Cerve"],
    [key |-> <<"c", "o", "p", "e", "t", "e">>, column |-> "Copete"] >>

Columns == {COLUMN_MAPPING[i].column : i \in 1..Len(COLUMN_MAPPING)}

Aliases == {COLUMN_MAPPING[i].key : i \in 1..Len(COLUMN_MAPPING)}

\* COLUMN_MAPPING[key], the column declared for an alias.
Declared(key) ==
    COLUMN_MAPPING[CHOOSE i \in 1..Len(COLUMN_MAPPING) : COLUMN_MAPPING[i].key = key].column

None == "None"

\* Variant: a field text that matches no alias goes to a catch-all column.
ResolveCatchAll(field_input) ==
    LET hits == {i \in 1..Len(COLUMN_MAPPING) :
                     StartsWith(field_input, COLUMN_MAPPING[i].key)}
    IN  IF hits = {} THEN "Otro"
        ELSE COLUMN_MAPPING[CHOOSE i \in hits : \A j \in hits : i <= j].column

\* The column of the first alias, in declaration order, that field_input
\* starts with; None when there is none.
Resolve(field_input) ==
    LET hits == {i \in 1..Len(COLUMN_MAPPING) :
                     StartsWith(field_input, COLUMN_MAPPING[i].key)}
    IN  IF hits = {} THEN None
        ELSE COLUMN_MAPPING[CHOOSE i \in hits : \A j \in hits : i <= j].column

(***************************************************************************)
(* The updates dict: a sequence of [k, v] with distinct keys, in insertion *)
(* order (Python dicts keep insertion order).                              *)
(***************************************************************************)
Keys(d) == {d[i].k : i \in 1..Len(d)}

Get(d, key) == d[CHOOSE i \in 1..Len(d) : d[i].k = key].v

\* Variant: d.setdefault(key, value), the first value of a key stays.
DictSetDefault(d, key, value) ==
    IF key \in Keys(d) THEN d ELSE Append(d, [k |-> key, v |-> value])

\* Variant: an overwritten key is taken out and put back last.
DictSetMoveToEnd(d, key, value) ==
    Append(SelectSeq(d, LAMBDA item : item.k # key), [k |-> key, v |-> value])

\* d[key] = value: an existing key keeps its position, a new key goes last.
DictSet(d, key, value) ==
    IF key \in Keys(d)
    THEN [i \in 1..Len(d) |-> IF d[i].k = key THEN [k |-> key, v |-> value] ELSE d[i]]
    ELSE Append(d, [k |-> key, v |-> value])

(***************************************************************************)
(* The parser: step 1 of handle_message.                                   *)
(***************************************************************************)
\* parts = [p.strip() for p in text.split(",")]
Parts(text) ==
    LET raw == SplitComma(text) IN [i \in 1..Len(raw) |-> Strip(raw[i])]

Tokens(part) == SplitWs(Lower(part))

FieldInput(tokens) == JoinSpace(SubSeq(tokens, 1, Len(tokens) - 1))

LastToken(tokens) == tokens[Len(tokens)]

\* The clause reaches the alias lookup: it is not skipped by a continue.
ReachesLookup(part) ==
    /\ part # <<>>
    /\ Len(Tokens(part)) >= 2
    /\ IsFloat(LastToken(Tokens(part)))

\* Variant: a last token that is no number counts as 0.0 (except ValueError:
\* value = 0.0) instead of dropping the clause.
ParseClauseZeroOnError(updates, part) ==
    IF part = <<>> \/ Len(Tokens(part)) < 2 THEN updates
    ELSE LET column_to_update == Resolve(FieldInput(Tokens(part)))
             value == IF IsFloat(LastToken(Tokens(part)))
                      THEN FloatValue(LastToken(Tokens(part)))
                      ELSE [m |-> 0, e |-> 0]
         IN  IF column_to_update = None THEN updates
             ELSE DictSet(updates, column_to_update, value)

\* One iteration of the for loop: updates after the clause.
ParseClause(updates, part) ==
    IF ~ReachesLookup(part) THEN updates
    ELSE LET column_to_update == Resolve(FieldInput(Tokens(part)))
         IN  IF column_to_update = None THEN updates
             ELSE DictSet(updates, column_to_update, FloatValue(LastToken(Tokens(part))))

RECURSIVE ParseParts(_, _)
ParseParts(updates, parts) ==
    IF parts = <<>> THEN updates
    ELSE ParseParts(ParseClause(updates, Head(parts)), Tail(parts))

\* The updates dict of a text.
Parse(text) == ParseParts(<<>>, Parts(text))

\* update_str = ", ".join(f"{k}={v}" ...): a sequence of fragments whose
\* concatenation is the string; a column name is one fragment.
RECURSIVE FormatUpdates(_)
FormatUpdates(updates) ==
    IF updates = <<>> THEN <<>>
    ELSE LET item == <<updates[1].k, "=">> \o FloatStr(updates[1].v)
         IN  IF Len(updates) = 1 THEN item
             ELSE item \o <<", ">> \o FormatUpdates(Tail(updates))

(***************************************************************************)
(* Inputs.  A parser run reads a text of up to MaxClauses clauses joined   *)
(* by ", "; a webhook request carries one of a few events.                 *)
(***************************************************************************)
ClauseTexts == {
    <<"s", "u", "e", "ñ", "o", " ", "7">>,
    <<"s", "p", " ", "2">>,
    <<"p", " ", "7", "0", ".", "5">>,
    <<"p", " ", "7", "0">>,
    <<"p", " ", "7", "1">>,
    <<"x", "y", "z", " ", "5">>,
    <<"p", " ", "a", "b", "c">>,
    <<>>,
    <<"s", "u", "e", "ñ", "o", " ", "p", "r", "o", "f", " ", "1">>,
    <<"P", "e", "s", "o", " ", " ", "7", "2", " ">>,
    <<"7", "0">> }

RECURSIVE JoinComma(_)
JoinComma(cs) ==
    IF Len(cs) = 1 THEN cs[1]
    ELSE cs[1] \o <<",", " ">> \o JoinComma(Tail(cs))

Texts ==
    {JoinComma(cs) : cs \in UNION {[1..n -> ClauseTexts] : n \in 1..MaxClauses}}

MessageTexts == {
    <<>>,
    <<"h", "e", "l", "l", "o", " ", "t", "h", "e", "r", "e">>,
    <<"p", " ", "7", "0">>,
    <<"k", "c", "a", "l", " ", "2", "0", "0", "0">>,
    <<"p", " ", "7", "1">> }

\* The webhook's JSON body: message is whether data["message"] is truthy,
\* has_text whether the message has a "text" key.
Events ==
    {[message |-> FALSE, has_text |-> FALSE, text |-> <<>>],
     [message |-> TRUE, has_text |-> FALSE, text |-> <<>>]}
    \cup {[message |-> TRUE, has_text |-> TRUE, text |-> t] : t \in MessageTexts}

Req == 1..NumReq

(***************************************************************************)
(* State.                                                                  *)
(*   A parser run (one execution of step 1 of handle_message and of the    *)
(*   confirmation formatting, one loop iteration per step):                *)
(*     text, parts, loop_i, field_input, column_to_update, updates,        *)
(*     update_str, step.                                                   *)
(*   The pipeline (webhook requests in flight, the table, the clock):      *)
(*     clock, General_track, sent, req_pc, req_event, req_updates,         *)
(*     req_now, req_conn, req_exc, req_response.                           *)
(***************************************************************************)
VARIABLES text, parts, loop_i, field_input, column_to_update, updates,
          update_str, step,
          clock, General_track, sent,
          req_pc, req_event, req_updates, req_now, req_conn, req_exc,
          req_response

parser_vars == <<text, parts, loop_i, field_input, column_to_update, updates,
                 update_str, step>>

pipeline_vars == <<clock, General_track, sent, req_pc, req_event, req_updates,
                   req_now, req_conn, req_exc, req_response>>

vars == <<parser_vars, pipeline_vars>>

(***************************************************************************)
(* Responses of the webhook (JSONResponse bodies and status codes).        *)
(***************************************************************************)
Pending == [status |-> "pending", message |-> <<>>, error |-> "", status_code |-> 0]

NoMessage == [status |-> "no_message", message |-> <<>>, error |-> "", status_code |-> 200]

UnknownMessageType ==
    [status |-> "unknown_message_type", message |-> <<>>, error |-> "", status_code |-> 200]

NoValidFields ==
    [status |-> "error", message |-> <<"No valid fields found in message.">>,
     error |-> "", status_code |-> 200]

Success(str) ==
    [status |-> "success", message |-> <<"Updated today: ">> \o str,
     error |-> "", status_code |-> 200]

\* The except branch of telegram_webhook; e names the call that raised.
UnhandledError(e) ==
    [status |-> "error", message |-> <<>>, error |-> e, status_code |-> 500]

(***************************************************************************)
(* Initial states.                                                         *)
(***************************************************************************)
ParserStart(t) ==
    /\ text = t
    /\ parts = <<>>
    /\ loop_i = 0
    /\ field_input = <<>>
    /\ column_to_update = None
    /\ updates = <<>>
    /\ update_str = <<>>

PipelineInit ==
    /\ clock = 0
    /\ General_track = <<>>
    /\ sent = {}
    /\ req_pc = [r \in Req |-> "idle"]
    /\ req_event = [r \in Req |-> [message |-> FALSE, has_text |-> FALSE, text |-> <<>>]]
    /\ req_updates = [r \in Req |-> <<>>]
    /\ req_now = [r \in Req |-> 0]
    /\ req_conn = [r \in Req |-> "none"]
    /\ req_exc = [r \in Req |-> "none"]
    /\ req_response = [r \in Req |-> Pending]

\* The pipeline: no parser run is stepped.
Init == ParserStart(<<>>) /\ step = "idle" /\ PipelineInit

\* A parser run on any text of the input set.
InitParse == (\E t \in Texts : ParserStart(t)) /\ step = "split" /\ PipelineInit

(***************************************************************************)
(* The parser run.                                                         *)
(***************************************************************************)
\* updates = {}; parts = [p.strip() for p in text.split(",")]
SplitText ==
    /\ step = "split"
    /\ parts' = Parts(text)
    /\ updates' = <<>>
    /\ loop_i' = 1
    /\ step' = "loop"
    /\ UNCHANGED <<text, field_input, column_to_update, update_str, pipeline_vars>>

\* One iteration of "for part in parts".  field_input and column_to_update
\* are assigned only when the iteration gets to their lines.
LoopClause ==
    /\ step = "loop"
    /\ loop_i <= Len(parts)
    /\ LET part == parts[loop_i]
           lookup == part # <<>> /\ Len(Tokens(part)) >= 2
       IN  /\ field_input' = IF lookup THEN FieldInput(Tokens(part)) ELSE field_input
           /\ column_to_update' =
                  IF ReachesLookup(part) THEN Resolve(FieldInput(Tokens(part)))
                  ELSE column_to_update
           /\ updates' = ParseClause(updates, part)
    /\ loop_i' = loop_i + 1
    /\ UNCHANGED <<text, parts, update_str, step, pipeline_vars>>

\* Variant: the emptiness test is missing.
NoUpdatesNever(u) == FALSE

\* if not updates
NoUpdates(u) == u = <<>>

\* The early return of line 68.
ReturnNoFields ==
    /\ step = "loop"
    /\ loop_i > Len(parts)
    /\ NoUpdates(updates)
    /\ step' = "no_fields"
    /\ UNCHANGED <<text, parts, loop_i, field_input, column_to_update, updates,
                   update_str, pipeline_vars>>

\* update_str of line 93.
FormatConfirmation ==
    /\ step = "loop"
    /\ loop_i > Len(parts)
    /\ ~NoUpdates(updates)
    /\ update_str' = FormatUpdates(updates)
    /\ step' = "formatted"
    /\ UNCHANGED <<text, parts, loop_i, field_input, column_to_update, updates,
                   pipeline_vars>>

NextParse == SplitText \/ LoopClause \/ ReturnNoFields \/ FormatConfirmation

SpecParse == InitParse /\ [][NextParse]_vars

(***************************************************************************)
(* The store.  General_track is a sequence of rows                         *)
(* [day, timestamp, vals]; vals maps the columns that are not NULL to      *)
(* their values.                                                           *)
(***************************************************************************)
\* now.date(): two clock readings make one calendar day.
Date(now) == now \div 2

Days == {Date(t) : t \in 0..MaxClock}

RowsOf(tbl, day) == {i \in 1..Len(tbl) : tbl[i].day = day}

\* The columns of an inserted row: the supplied ones, the others NULL.
Inserted(upd) == [c \in Keys(upd) |-> Get(upd, c)]

\* DO UPDATE SET col = EXCLUDED.col for the supplied columns only.
Merged(vals, upd) ==
    [c \in (DOMAIN vals) \cup Keys(upd) |->
        IF c \in Keys(upd) THEN Get(upd, c) ELSE vals[c]]

\* Variants of the statement that differ from the one the code builds.
\* INSERT OR REPLACE: the conflicting row is replaced as a whole.
UpsertReplaceRow(tbl, day, ts, upd) ==
    IF RowsOf(tbl, day) = {}
    THEN Append(tbl, [day |-> day, timestamp |-> ts, vals |-> Inserted(upd)])
    ELSE [i \in 1..Len(tbl) |->
             IF tbl[i].day = day
             THEN [day |-> day, timestamp |-> ts, vals |-> Inserted(upd)]
             ELSE tbl[i]]

\* ON CONFLICT(day) DO NOTHING.
UpsertDoNothing(tbl, day, ts, upd) ==
    IF RowsOf(tbl, day) = {}
    THEN Append(tbl, [day |-> day, timestamp |-> ts, vals |-> Inserted(upd)])
    ELSE tbl

\* DO UPDATE SET timestamp = EXCLUDED.timestamp as well.
UpsertSetTimestamp(tbl, day, ts, upd) ==
    IF RowsOf(tbl, day) = {}
    THEN Append(tbl, [day |-> day, timestamp |-> ts, vals |-> Inserted(upd)])
    ELSE [i \in 1..Len(tbl) |->
             IF tbl[i].day = day
             THEN [tbl[i] EXCEPT !.timestamp = ts, !.vals = Merged(@, upd)]
             ELSE tbl[i]]

\* A plain INSERT with no conflict clause and no unique key.
PlainInsert(tbl, day, ts, upd) ==
    Append(tbl, [day |-> day, timestamp |-> ts, vals |-> Inserted(upd)])

\* INSERT INTO General_track (day, timestamp, cols...) VALUES (...)
\* ON CONFLICT(day) DO UPDATE SET cols = EXCLUDED.cols, as one statement.
Upsert(tbl, day, ts, upd) ==
    IF RowsOf(tbl, day) = {}
    THEN Append(tbl, [day |-> day, timestamp |-> ts, vals |-> Inserted(upd)])
    ELSE [i \in 1..Len(tbl) |->
             IF tbl[i].day = day
             THEN [tbl[i] EXCEPT !.vals = Merged(@, upd)]
             ELSE tbl[i]]

(***************************************************************************)
(* The pipeline: telegram_webhook and handle_message, one action per       *)
(* stretch of code between two awaits.                                     *)
(***************************************************************************)
\* Variant: the test of message.get("text") is missing.
HasTextUntested(ev) == TRUE

\* message.get("text") is truthy
HasText(ev) == ev.has_text /\ ev.text # <<>>

\* Requests are numbered in the order their events arrive.
Arrives(r) == req_pc[r] = "idle" /\ \A q \in Req : q < r => req_pc[q] # "idle"

Return(r, resp) ==
    /\ req_pc' = [req_pc EXCEPT ![r] = "done"]
    /\ req_response' = [req_response EXCEPT ![r] = resp]

\* telegram_webhook up to the call of handle_message, then handle_message
\* up to "await asyncpg.connect": parse, early return, clock reading.
Receive(r) ==
    /\ Arrives(r)
    /\ \E ev \in Events :
        /\ req_event' = [req_event EXCEPT ![r] = ev]
        /\ IF ~ev.message
           THEN Return(r, NoMessage) /\ UNCHANGED <<req_updates, req_now>>
           ELSE IF ~HasText(ev)
           THEN Return(r, UnknownMessageType) /\ UNCHANGED <<req_updates, req_now>>
           ELSE /\ req_updates' = [req_updates EXCEPT ![r] = Parse(ev.text)]
                /\ IF NoUpdates(Parse(ev.text))
                   THEN Return(r, NoValidFields) /\ UNCHANGED req_now
                   ELSE /\ req_now' = [req_now EXCEPT ![r] = clock]
                        /\ req_pc' = [req_pc EXCEPT ![r] = "connect"]
                        /\ UNCHANGED req_response
    /\ UNCHANGED <<parser_vars, clock, General_track, sent, req_conn, req_exc>>

\* conn = await asyncpg.connect(DATABASE_URL)
ConnectOk(r) ==
    /\ req_pc[r] = "connect"
    /\ req_conn' = [req_conn EXCEPT ![r] = "open"]
    /\ req_pc' = [req_pc EXCEPT ![r] = "execute"]
    /\ UNCHANGED <<parser_vars, clock, General_track, sent, req_event, req_updates,
                   req_now, req_exc, req_response>>

\* connect raises: outside the try, the webhook's except answers.
ConnectFails(r) ==
    /\ req_pc[r] = "connect"
    /\ req_exc' = [req_exc EXCEPT ![r] = "connect"]
    /\ Return(r, UnhandledError("connect"))
    /\ UNCHANGED <<parser_vars, clock, General_track, sent, req_event, req_updates,
                   req_now, req_conn>>

\* Variant: the day key is read from the clock when the statement runs.
ExecuteOkDayAtWrite(r) ==
    /\ req_pc[r] = "execute"
    /\ General_track' =
           Upsert(General_track, Date(clock), req_now[r], req_updates[r])
    /\ req_pc' = [req_pc EXCEPT ![r] = "notify"]
    /\ UNCHANGED <<parser_vars, clock, sent, req_event, req_updates, req_now,
                   req_conn, req_exc, req_response>>

\* Variant: the connection is closed as soon as the statement has run.
ExecuteOkReleases(r) ==
    /\ req_pc[r] = "execute"
    /\ General_track' =
           Upsert(General_track, Date(req_now[r]), req_now[r], req_updates[r])
    /\ req_conn' = [req_conn EXCEPT ![r] = "closed"]
    /\ req_pc' = [req_pc EXCEPT ![r] = "notify"]
    /\ UNCHANGED <<parser_vars, clock, sent, req_event, req_updates, req_now,
                   req_exc, req_response>>

\* await conn.execute(query, *values_list)
ExecuteOk(r) ==
    /\ req_pc[r] = "execute"
    /\ General_track' =
           Upsert(General_track, Date(req_now[r]), req_now[r], req_updates[r])
    /\ req_pc' = [req_pc EXCEPT ![r] = "notify"]
    /\ UNCHANGED <<parser_vars, clock, sent, req_event, req_updates, req_now,
                   req_conn, req_exc, req_response>>

\* Variant: a failed execute is attempted again.
ExecuteFailsRetry(r) ==
    /\ req_pc[r] = "execute"
    /\ req_exc' = [req_exc EXCEPT ![r] = "execute"]
    /\ UNCHANGED <<parser_vars, clock, General_track, sent, req_pc, req_event,
                   req_updates, req_now, req_conn, req_response>>

\* Variant: a failed execute is swallowed and the confirmation is sent.
ExecuteFailsSwallowed(r) ==
    /\ req_pc[r] = "execute"
    /\ req_exc' = [req_exc EXCEPT ![r] = "execute"]
    /\ req_pc' = [req_pc EXCEPT ![r] = "notify"]
    /\ UNCHANGED <<parser_vars, clock, General_track, sent, req_event, req_updates,
                   req_now, req_conn, req_response>>

\* execute raises: control goes to the finally.
ExecuteFails(r) ==
    /\ req_pc[r] = "execute"
    /\ req_exc' = [req_exc EXCEPT ![r] = "execute"]
    /\ req_pc' = [req_pc EXCEPT ![r] = "close"]
    /\ UNCHANGED <<parser_vars, clock, General_track, sent, req_event, req_updates,
                   req_now, req_conn, req_response>>

\* await session.post(.../sendMessage, json={chat_id, text})
NotifyOk(r) ==
    /\ req_pc[r] = "notify"
    /\ sent' = sent \cup
           {[chat_id |-> r,
             text |-> <<"Updated today: ">> \o FormatUpdates(req_updates[r])]}
    /\ req_pc' = [req_pc EXCEPT ![r] = "close"]
    /\ UNCHANGED <<parser_vars, clock, General_track, req_event, req_updates,
                   req_now, req_conn, req_exc, req_response>>

\* the post raises: control goes to the finally.
NotifyFails(r) ==
    /\ req_pc[r] = "notify"
    /\ req_exc' = [req_exc EXCEPT ![r] = "notify"]
    /\ req_pc' = [req_pc EXCEPT ![r] = "close"]
    /\ UNCHANGED <<parser_vars, clock, General_track, sent, req_event, req_updates,
                   req_now, req_conn, req_response>>

\* Variant: conn.close() at the end of the try body, with no finally.
CloseOnSuccessOnly(r) ==
    /\ req_pc[r] = "close"
    /\ req_conn' = [req_conn EXCEPT ![r] = IF req_exc[r] = "none" THEN "closed" ELSE @]
    /\ Return(r, IF req_exc[r] = "none"
                 THEN Success(FormatUpdates(req_updates[r]))
                 ELSE UnhandledError(req_exc[r]))
    /\ UNCHANGED <<parser_vars, clock, General_track, sent, req_event, req_updates,
                   req_now, req_exc>>

\* finally: await conn.close(); then the return of line 103, or the pending
\* exception reaches the webhook's except.
Close(r) ==
    /\ req_pc[r] = "close"
    /\ req_conn' = [req_conn EXCEPT ![r] = "closed"]
    /\ Return(r, IF req_exc[r] = "none"
                 THEN Success(FormatUpdates(req_updates[r]))
                 ELSE UnhandledError(req_exc[r]))
    /\ UNCHANGED <<parser_vars, clock, General_track, sent, req_event, req_updates,
                   req_now, req_exc>>

\* The wall clock of America/Santiago advances.
Tick ==
    /\ clock < MaxClock
    /\ clock' = clock + 1
    /\ UNCHANGED <<parser_vars, General_track, sent, req_pc, req_event, req_updates,
                   req_now, req_conn, req_exc, req_response>>

Next ==
    \/ Tick
    \/ \E r \in Req :
        \/ Receive(r)
        \/ ConnectOk(r) \/ ConnectFails(r)
        \/ ExecuteOk(r) \/ ExecuteFails(r)
        \/ NotifyOk(r) \/ NotifyFails(r)
        \/ Close(r)

Spec == Init /\ [][Next]_vars

(***************************************************************************)
(* Vocabulary of the properties.                                           *)
(***************************************************************************)
Today(r) == Date(req_now[r])

\* The request's conn.execute has completed without raising.
Wrote(r) ==
    /\ req_pc[r] \in {"notify", "close", "done"}
    /\ req_conn[r] # "none"
    /\ req_exc[r] # "execute"

\* The stored values of column c on day's rows: empty when there is no row
\* or the column is NULL.
Cell(tbl, day, c) ==
    {tbl[i].vals[c] : i \in {j \in RowsOf(tbl, day) : c \in DOMAIN tbl[j].vals}}

\* The request's execute step is being taken.
Executes(r) == req_pc[r] = "execute" /\ req_pc'[r] = "notify"

Num(n) == [m |-> n, e |-> 0]

\* The column a clause assigns (None when the clause is dropped) and its value.
ClauseColumn(part) ==
    IF ReachesLookup(part) THEN Resolve(FieldInput(Tokens(part))) ELSE None

ClauseValue(part) == FloatValue(LastToken(Tokens(part)))

\* The loop of the parser run has gone through parts[1..Processed].
Processed == IF step \in {"loop", "no_fields", "formatted"} THEN loop_i - 1 ELSE 0

(***************************************************************************)
(* C1.  Merge, not replace: a column of a day's row changes only in the    *)
(* execute step of a request that targets that day and has the column in   *)
(* its updates; every other column keeps its value (NULL stays NULL).      *)
(***************************************************************************)
C1_MergeNotReplace ==
    [][General_track' # General_track
       => \A d \in Days, c \in Columns :
              Cell(General_track', d, c) # Cell(General_track, d, c)
              => \E r \in Req :
                     Executes(r) /\ Today(r) = d /\ c \in Keys(req_updates[r])]_vars

\* {Peso: 70} and {KCal: 2000} were reconciled for one day by two runs, and
\* the row holds both.
C1_Witness ==
    \E r1, r2 \in Req :
        /\ Wrote(r1) /\ Wrote(r2) /\ Today(r1) = Today(r2)
        /\ req_pc[r1] = "done"
        /\ req_updates[r1] = <<[k |-> "Peso", v |-> Num(70)]>>
        /\ req_updates[r2] = <<[k |-> "KCal", v |-> Num(2000)]>>
        /\ Cell(General_track, Today(r1), "Peso") = {Num(70)}
        /\ Cell(General_track, Today(r1), "KCal") = {Num(2000)}

(***************************************************************************)
(* C2.  No lost update: when two requests have both written the same day   *)
(* with different columns, under any interleaving, the row holds the value *)
(* of each of them in every column that no third request wrote.            *)
(***************************************************************************)
C2_NoLostUpdate ==
    \A r1, r2 \in Req :
        ( /\ r1 # r2 /\ Wrote(r1) /\ Wrote(r2) /\ Today(r1) = Today(r2)
          /\ Keys(req_updates[r1]) \cap Keys(req_updates[r2]) = {} )
        => \A c \in Keys(req_updates[r1]) :
               (\A q \in Req \ {r1} :
                    Wrote(q) /\ Today(q) = Today(r1) => c \notin Keys(req_updates[q]))
               => Cell(General_track, Today(r1), c) = {Get(req_updates[r1], c)}

\* Two requests are in flight at once, both past their execute, neither
\* closed, on the same day with different columns.
C2_Witness ==
    \E r1, r2 \in Req :
        /\ r1 # r2 /\ Today(r1) = Today(r2)
        /\ req_pc[r1] = "notify" /\ req_pc[r2] = "notify"
        /\ Keys(req_updates[r1]) \cap Keys(req_updates[r2]) = {}
        /\ \A r \in {r1, r2} : \A c \in Keys(req_updates[r]) :
               Cell(General_track, Today(r), c) = {Get(req_updates[r], c)}

(***************************************************************************)
(* C3.  Handling "sueño 7, sp 2, p 70.5" gives the updates                 *)
(* {Suenho: 7, Suenho_profundo: 2, Peso: 70.5} and a confirmation that     *)
(* lists Suenho, Suenho_profundo, Peso in that order.                      *)
(***************************************************************************)
C3_EndToEnd ==
    (text = <<"s", "u", "e", "ñ", "o", " ", "7", ",", " ", "s", "p", " ", "2", ",", " ", "p", " ", "7", "0", ".", "5">> /\ step = "formatted")
    => /\ updates = <<[k |-> "Suenho", v |-> Num(7)],
                      [k |-> "Suenho_profundo", v |-> Num(2)],
                      [k |-> "Peso", v |-> [m |-> 705, e |-> 1]]>>
       /\ SelectSeq(update_str, LAMBDA f : f \in Columns)
              = <<"Suenho", "Suenho_profundo", "Peso">>

(***************************************************************************)
(* C4.  When the day's row exists, a successful execute sets the row's     *)
(* timestamp to the timestamp of the request being handled.                *)
(***************************************************************************)
C4_TimestampLastModified ==
    [][\A r \in Req :
          (Executes(r) /\ RowsOf(General_track, Today(r)) # {})
          => \A i \in RowsOf(General_track', Today(r)) :
                 General_track'[i].timestamp = req_now[r]]_vars

(***************************************************************************)
(* C5.  A notification that fails after the write never makes the run a    *)
(* reported failure: the response is the success one and the row keeps the *)
(* written values.                                                         *)
(***************************************************************************)
C5_NotifyFailureNotReported ==
    \A r \in Req :
        (req_pc[r] = "done" /\ req_exc[r] = "notify")
        => /\ req_response[r] = Success(FormatUpdates(req_updates[r]))
           /\ RowsOf(General_track, Today(r)) # {}

\* The request carried a text message (a "text" key), of any content.
TextEvent(r) == req_pc[r] # "idle" /\ req_event[r].message /\ req_event[r].has_text

\* The parse of the request's text is the empty mapping: req_updates is the
\* parse of a text that was passed to handle_message; the empty text is not
\* passed, and is parsed here.
EmptyParse(r) ==
    IF req_event[r].text = <<>> THEN Parse(<<>>) = <<>> ELSE req_updates[r] = <<>>

\* No storage access and no notification was made for the request.
NoStorageNoNotice(r) ==
    /\ req_conn[r] = "none"
    /\ ~Wrote(r)
    /\ \A n \in sent : n.chat_id # r

(***************************************************************************)
(* C6, as stated.  Every text whose parse is empty, "" and "hello there"   *)
(* included, gets the "no valid fields" response, with no connection, no   *)
(* write and no notification.                                              *)
(***************************************************************************)
C6_EmptyParseNoValidFields ==
    \A r \in Req :
        (TextEvent(r) /\ EmptyParse(r))
        => /\ req_pc[r] = "done"
           /\ req_response[r] = NoValidFields
           /\ NoStorageNoNotice(r)

(***************************************************************************)
(* C6, amended.  Every non-empty text whose parse is empty gets the "no    *)
(* valid fields" response; the empty text "" is not passed to              *)
(* handle_message and gets "unknown_message_type".  In both cases no       *)
(* connection is opened, nothing is written and nothing is sent; while no  *)
(* other kind of request has arrived the table stays empty.                *)
(***************************************************************************)
C6_EmptyParseNoWrite ==
    /\ \A r \in Req :
           (TextEvent(r) /\ EmptyParse(r))
           => /\ req_pc[r] = "done"
              /\ req_response[r] =
                     IF req_event[r].text = <<>> THEN UnknownMessageType
                     ELSE NoValidFields
              /\ NoStorageNoNotice(r)
    /\ (\A r \in Req : req_pc[r] # "idle" => EmptyParse(r))
       => General_track = <<>> /\ sent = {}

\* "hello there" was answered with "no valid fields".
C6_Witness ==
    \E r \in Req :
        /\ TextEvent(r)
        /\ req_event[r].text = <<"h", "e", "l", "l", "o", " ", "t", "h", "e", "r", "e">>
        /\ req_response[r] = NoValidFields

(***************************************************************************)
(* C7.  Vocabulary ordering: an alias that is a strict prefix of an alias  *)
(* of another column is declared after it; stated in its equivalent form,  *)
(* a field text that is exactly an alias resolves to the column declared   *)
(* for that alias.                                                         *)
(***************************************************************************)
C7_AliasResolvesAsDeclared ==
    ( /\ Processed >= 1
      /\ ReachesLookup(parts[Processed])
      /\ field_input \in Aliases )
    => column_to_update = Declared(field_input)

(***************************************************************************)
(* C8.  Last clause wins: after any number of clauses the updates hold     *)
(* each column at most once, a column is present exactly when some clause  *)
(* gone through assigns it, and its value is the value of the last such    *)
(* clause.                                                                 *)
(***************************************************************************)
C8_LastClauseWins ==
    /\ \A i, j \in 1..Len(updates) : updates[i].k = updates[j].k => i = j
    /\ LET assigned == [i \in 1..Processed |-> ClauseColumn(parts[i])]
       IN  \A c \in Columns :
               LET hits == {i \in 1..Processed : assigned[i] = c}
               IN  IF hits = {} THEN c \notin Keys(updates)
                   ELSE /\ c \in Keys(updates)
                        /\ Get(updates, c) =
                               ClauseValue(parts[CHOOSE i \in hits : \A j \in hits : j <= i])

\* "p 70, p 71" was parsed to {Peso: 71}.
C8_Witness ==
    /\ text = <<"p", " ", "7", "0", ",", " ", "p", " ", "7", "1">>
    /\ step = "formatted"
    /\ updates = <<[k |-> "Peso", v |-> Num(71)]>>

\* The day's row exists and holds the values of upd in the columns of upd:
\* the store is as some reconciliation of upd for the day left it.
Applied(tbl, day, upd) ==
    /\ RowsOf(tbl, day) # {}
    /\ \A c \in Keys(upd) : Cell(tbl, day, c) = {Get(upd, c)}

(***************************************************************************)
(* C9.  Idempotent under repetition: reconciling a mapping for a day on    *)
(* which the same mapping was just reconciled leaves the store as it was.  *)
(***************************************************************************)
C9_Idempotent ==
    [][\A r \in Req :
          (Executes(r) /\ Applied(General_track, Today(r), req_updates[r]))
          => General_track' = General_track]_vars

\* Two requests with the same mapping have written the same day, with
\* different timestamps.
C9_Witness ==
    \E r1, r2 \in Req :
        /\ r1 # r2 /\ Wrote(r1) /\ Wrote(r2)
        /\ req_pc[r1] = "done" /\ req_pc[r2] = "done"
        /\ req_updates[r1] = req_updates[r2]
        /\ Today(r1) = Today(r2)
        /\ req_now[r1] # req_now[r2]

(***************************************************************************)
(* C10.  One row per targeted day: the table holds exactly one row for     *)
(* each day some request has written and no row for any other day.         *)
(***************************************************************************)
C10_OneRowPerDay ==
    /\ \A i \in 1..Len(General_track) : General_track[i].day \in Days
    /\ \A d \in Days :
           Cardinality(RowsOf(General_track, d)) =
               IF \E r \in Req : Wrote(r) /\ Today(r) = d THEN 1 ELSE 0

\* Two requests have written the same day, which has one row.
C10_Witness ==
    \E r1, r2 \in Req :
        /\ r1 # r2 /\ Wrote(r1) /\ Wrote(r2)
        /\ Today(r1) = Today(r2)
        /\ Cardinality(RowsOf(General_track, Today(r1))) = 1

(***************************************************************************)
(* C11.  A failed connect or execute ends the run as a failed one: the     *)
(* request goes to its exit and never back to the connect or the execute   *)
(* (no retry), its response is the generic error with status 500, nothing  *)
(* is written for it and no confirmation is sent for it.                   *)
(***************************************************************************)
C11_StorageFailureSurfaced ==
    \A r \in Req :
        req_exc[r] \in {"connect", "execute"}
        => /\ req_pc[r] \in {"close", "done"}
           /\ req_pc[r] = "done" => req_response[r] = UnhandledError(req_exc[r])
           /\ req_response[r] \in {Pending, UnhandledError(req_exc[r])}
           /\ ~Wrote(r)
           /\ \A n \in sent : n.chat_id # r

\* One request ended after its execute raised and another after its connect
\* raised, both with the error response.
C11_Witness ==
    \E r1, r2 \in Req :
        /\ req_pc[r1] = "done" /\ req_exc[r1] = "execute"
        /\ req_response[r1].status = "error" /\ req_response[r1].status_code = 500
        /\ req_pc[r2] = "done" /\ req_exc[r2] = "connect"
        /\ req_response[r2].status_code = 500

\* The event has no text message body: no message, or a message with no text.
LacksTextBody(ev) == ~ev.message \/ ~ev.has_text

(***************************************************************************)
(* C12.  An event without a text message body is never routed into         *)
(* handle_message: it is answered at once, with no storage access and no   *)
(* notification, and with a status other than that of "no valid fields".   *)
(***************************************************************************)
C12_NoTextNotRouted ==
    \A r \in Req :
        (req_pc[r] # "idle" /\ LacksTextBody(req_event[r]))
        => /\ req_pc[r] = "done"
           /\ NoStorageNoNotice(r)
           /\ req_response[r] \in {NoMessage, UnknownMessageType}
           /\ req_response[r].status # NoValidFields.status

\* One request carried no message and another a message without text.
C12_Witness ==
    \E r1, r2 \in Req :
        /\ req_pc[r1] = "done" /\ ~req_event[r1].message
        /\ req_response[r1] = NoMessage
        /\ req_pc[r2] = "done" /\ req_event[r2].message /\ ~req_event[r2].has_text
        /\ req_response[r2] = UnknownMessageType

\* The parser run has returned or has formatted its confirmation.
ParseEnded == step \in {"no_fields", "formatted"}

\* Some step of the parser run can be taken: the split, a loop iteration, or
\* one of the two ends of the loop.
ParseStepEnabled ==
    \/ step = "split"
    \/ step = "loop" /\ loop_i \in 1..Len(parts)
    \/ step = "loop" /\ loop_i = Len(parts) + 1

(***************************************************************************)
(* C13.  The parser is total and its keys are canonical columns: a run on  *)
(* any text goes on, step by step, until it ends (no step is undefined on  *)
(* its input and none is stuck), and at every step the keys of updates are *)
(* columns of the alias table.                                             *)
(***************************************************************************)
C13_ParseTotalKeysKnown ==
    /\ Keys(updates) \subseteq Columns
    /\ ~ParseEnded => ParseStepEnabled

\* A run over a text with an unknown field and a word as value has ended
\* with only known columns.
C13_Witness ==
    /\ ParseEnded
    /\ \E i \in 1..Len(parts) : parts[i] = <<"x", "y", "z", " ", "5">>
    /\ \E i \in 1..Len(parts) : parts[i] = <<"p", " ", "a", "b", "c">>
    /\ updates # <<>>
    /\ Keys(updates) \subseteq Columns

\* The clause contributes nothing: it is empty, has fewer than two tokens,
\* has a last token that is no number, or a field text that no alias starts.
Dropped(part) ==
    \/ part = <<>>
    \/ Len(Tokens(part)) < 2
    \/ ~IsFloat(LastToken(Tokens(part)))
    \/ \A i \in 1..Len(COLUMN_MAPPING) :
           ~StartsWith(FieldInput(Tokens(part)), COLUMN_MAPPING[i].key)

\* The message with its dropped clauses removed.
KeptClauses == SelectSeq(parts, LAMBDA part : ~Dropped(part))

KeptText == IF KeptClauses = <<>> THEN <<>> ELSE JoinComma(KeptClauses)

(***************************************************************************)
(* C14.  Dropped clauses contribute nothing and do not affect the others:  *)
(* the updates of a message are the updates of the same message with its   *)
(* dropped clauses removed.                                                *)
(***************************************************************************)
C14_DroppedClausesIgnored ==
    ParseEnded => updates = Parse(KeptText)

\* "xyz 5, p 70" was parsed to {Peso: 70}.
C14_Witness ==
    /\ text = <<"x", "y", "z", " ", "5", ",", " ", "p", " ", "7", "0">>
    /\ step = "formatted"
    /\ updates = <<[k |-> "Peso", v |-> Num(70)]>>
    /\ KeptClauses = <<<<"p", " ", "7", "0">>>>

\* The request's session.post has been entered: it is under way, has
\* delivered, or has raised.
NotifyAttempted(r) ==
    \/ req_pc[r] = "notify"
    \/ \E n \in sent : n.chat_id = r
    \/ req_exc[r] = "notify"

(***************************************************************************)
(* C15.  Commit first, notify after: whenever a request's notification is  *)
(* under way or over, its execute has completed without raising and the    *)
(* day's row is in the store with every column of its updates filled.      *)
(***************************************************************************)
C15_CommitBeforeNotify ==
    \A r \in Req :
        NotifyAttempted(r)
        => /\ Wrote(r)
           /\ RowsOf(General_track, Today(r)) # {}
           /\ \A c \in Keys(req_updates[r]) : Cell(General_track, Today(r), c) # {}

\* {Peso: 70} is in the store and the request is about to post, nothing
\* having been sent yet.
C15_Witness ==
    \E r \in Req :
        /\ req_pc[r] = "notify"
        /\ req_updates[r] = <<[k |-> "Peso", v |-> Num(70)]>>
        /\ Cell(General_track, Today(r), "Peso") = {Num(70)}
        /\ sent = {}

(***************************************************************************)
(* C16.  The connection is scoped per request: a request holds an open     *)
(* connection of its own exactly from its connect to its close, and a     *)
(* finished request has none open, whether it ended in success, in a       *)
(* failed execute or in a failed post.                                     *)
(***************************************************************************)
C16_ConnectionScoped ==
    /\ \A r \in Req :
           req_conn[r] = "open" <=> req_pc[r] \in {"execute", "notify", "close"}
    /\ (\A r \in Req : req_pc[r] \in {"idle", "done"})
           => \A r \in Req : req_conn[r] # "open"

\* One request ended in a failed execute, another in a failed post, and
\* both connections are closed.
C16_Witness ==
    \E r1, r2 \in Req :
        /\ req_pc[r1] = "done" /\ req_exc[r1] = "execute" /\ req_conn[r1] = "closed"
        /\ req_pc[r2] = "done" /\ req_exc[r2] = "notify" /\ req_conn[r2] = "closed"

\* The request's session.post is over: it has delivered or it has raised.
NotifyFinished(r) == (\E n \in sent : n.chat_id = r) \/ req_exc[r] = "notify"

\* The columns named by the confirmation, in the order it names them.
ListedColumns == SelectSeq(update_str, LAMBDA f : f \in Columns)

(***************************************************************************)
(* C17.  The confirmation lists key=value pairs in the order in which the  *)
(* columns first appear among the clauses, left to right, each with the    *)
(* value of the last clause that assigns it: a clause that overwrites a    *)
(* column changes the value shown, not the place.                          *)
(***************************************************************************)
C17_FirstAppearanceOrder ==
    step = "formatted"
    => LET assigned == [i \in 1..Len(parts) |-> ClauseColumn(parts[i])]
           firsts == {i \in 1..Len(parts) :
                         /\ assigned[i] # None
                         /\ \A j \in 1..(i - 1) : assigned[j] # assigned[i]}
           nth(n) == CHOOSE i \in firsts : Cardinality({j \in firsts : j < i}) = n - 1
           last(c) == CHOOSE i \in 1..Len(parts) :
                          /\ assigned[i] = c
                          /\ \A j \in 1..Len(parts) : assigned[j] = c => j <= i
           expected == [n \in 1..Cardinality(firsts) |->
                           [k |-> assigned[nth(n)],
                            v |-> ClauseValue(parts[last(assigned[nth(n)])])]]
       IN  /\ ListedColumns = [n \in 1..Cardinality(firsts) |-> assigned[nth(n)]]
           /\ update_str = FormatUpdates(expected)

\* "p 70, sueño 7, p 71" was confirmed as "Peso=71.0, Suenho=7.0".
C17_Witness ==
    /\ step = "formatted"
    /\ parts = << <<"p", " ", "7", "0">>,
                  <<"s", "u", "e", "ñ", "o", " ", "7">>,
                  <<"p", " ", "7", "1">> >>
    /\ update_str = <<"Peso", "=", "7", "1", ".", "0", ", ",
                      "Suenho", "=", "7", ".", "0">>

(***************************************************************************)
(* C18.  In every reachable store, the day of each row is the calendar     *)
(* date of the timestamp stored in that row: both come from the one clock  *)
(* reading of the request that inserted the row.                           *)
(***************************************************************************)
C18_DayIsDateOfTimestamp ==
    \A i \in 1..Len(General_track) :
        General_track[i].day = Date(General_track[i].timestamp)

\* A request read the clock on one day and wrote its row after the clock
\* had moved to the next day.
C18_Witness ==
    \E r \in Req :
        /\ Wrote(r)
        /\ Date(clock) # Today(r)
        /\ \E i \in 1..Len(General_track) :
               /\ General_track[i].timestamp = req_now[r]
               /\ General_track[i].day = Today(r)
        /\ RowsOf(General_track, Date(clock)) = {}

(***************************************************************************)
(* C19.  The connection is released only after the notification attempt   *)
(* is over: it is open for as long as the post is under way, and a request *)
(* whose connection is closed has finished with its post, by delivery or   *)
(* by an exception, or never entered it because its execute raised.        *)
(***************************************************************************)
C19_ReleaseAfterNotify ==
    \A r \in Req :
        /\ req_pc[r] = "notify" => req_conn[r] = "open"
        /\ req_conn[r] = "closed"
           => /\ req_pc[r] = "done"
              /\ NotifyFinished(r) \/ req_exc[r] = "execute"

\* One request is posting with its connection open while another has
\* delivered its confirmation and closed its own.
C19_Witness ==
    \E r1, r2 \in Req :
        /\ req_pc[r1] = "notify" /\ req_conn[r1] = "open"
        /\ req_pc[r2] = "done" /\ req_conn[r2] = "closed"
        /\ \E n \in sent : n.chat_id = r2

====
